---- MODULE Spec2Model ----
(***************************************************************************)
(* A model of the desktop cache engine of tauri-plugin-cache               *)
(* (src/src/desktop.rs, with the stats command of src/src/commands.rs):    *)
(* the file-backed document, the in-memory value cache, the two mutexes,   *)
(* the background cleanup thread and the public operations, each split at  *)
(* the points where it takes a lock.                                       *)
(***************************************************************************)
EXTENDS Integers, Sequences, FiniteSets, TLC

(***************************************************************************)
(* Bounds of the model.                                                    *)
(***************************************************************************)
\* number of distinct cache keys
NumKeys == 2
\* the wall clock runs over 0..MaxTime seconds
MaxTime == 2
\* width, in bits, of the scaled-down stand-in for u64 seconds
U64Bits == 3
\* CompressionConfig.threshold, in bytes of serialized JSON
Threshold == 2

Keys == 1..NumKeys
Callers == {1, 2}

(***************************************************************************)
(* Option and Result.                                                      *)
(***************************************************************************)
NoneOpt == [some |-> FALSE]
Some(x) == [some |-> TRUE, v |-> x]
Ok(x) == [ok |-> TRUE, v |-> x]
Err(kind) == [ok |-> FALSE, err |-> kind]
\* EmptyResponse {} and BooleanResponse { value }
EmptyResponse == [empty |-> TRUE]
BooleanResponse(b) == [value |-> b]

(***************************************************************************)
(* serde_json values.  A value is a one-digit number or a string of bytes. *)
(* Bytes are integers.                                                     *)
(***************************************************************************)
JsonNum(n) == [kind |-> "num", n |-> n]
JsonStr(s) == [kind |-> "str", s |-> s]

RECURSIVE Reverse(_)
Reverse(s) == IF s = <<>> THEN <<>> ELSE Append(Reverse(Tail(s)), Head(s))

\* a string literal of n-2 letters: its JSON text is n bytes long
StrOfJsonLen(n) == JsonStr([i \in 1..(n - 2) |-> 97])
ValOfLen(n) == IF n <= 1 THEN JsonNum(7) ELSE StrOfJsonLen(n)
\* the values callers store: one serializes to Threshold-1 bytes, one to Threshold
Values == {ValOfLen(Threshold - 1), ValOfLen(Threshold)}

\* serde_json::to_string
to_string(v) ==
    IF v.kind = "num" THEN <<48 + v.n>> ELSE <<34>> \o v.s \o <<34>>

\* serde_json::from_str
from_str(s) ==
    IF Len(s) = 1 /\ s[1] \in 48..57
    THEN Ok(JsonNum(s[1] - 48))
    ELSE IF /\ Len(s) >= 2
            /\ s[1] = 34
            /\ s[Len(s)] = 34
            /\ \A i \in 2..(Len(s) - 1) : s[i] # 34
         THEN Ok(JsonStr(SubSeq(s, 2, Len(s) - 1)))
         ELSE Err("deserialize")

\* flate2 ZlibEncoder: a header byte, then the transformed payload
ZlibEncode(bytes) == <<120>> \o Reverse(bytes)

\* flate2 ZlibDecoder::read_to_string
ZlibDecode(bytes) ==
    IF Len(bytes) >= 1 /\ bytes[1] = 120
    THEN Ok(Reverse(Tail(bytes)))
    ELSE Err("decompress")

\* base64 STANDARD.encode: text over an alphabet of its own
Base64Encode(bytes) == [i \in 1..Len(bytes) |-> 200 + bytes[i]]

\* base64 STANDARD.decode
Base64Decode(text) ==
    IF \A i \in 1..Len(text) : text[i] >= 200
    THEN Ok([i \in 1..Len(text) |-> text[i] - 200])
    ELSE Err("base64")

\* Cache::compress_value, bug variant: the threshold test is skipped and the
\* raw text is framed as compressed
compress_value_marks_raw(cfg, value) == <<1>> \o to_string(value)

\* Cache::compress_value, bug variant: a payload of exactly threshold bytes
\* is left uncompressed
compress_value_above_threshold(cfg, value) ==
    LET json_string == to_string(value) IN
    IF ~cfg.enabled \/ Len(json_string) <= cfg.threshold
    THEN <<0>> \o json_string
    ELSE <<1>> \o ZlibEncode(json_string)

\* Cache::compress_value (cfg is self.compression)
compress_value(cfg, value) ==
    LET json_string == to_string(value) IN
    IF ~cfg.enabled \/ Len(json_string) < cfg.threshold
    THEN <<0>> \o json_string
    ELSE <<1>> \o ZlibEncode(json_string)

\* Cache::decompress_value
decompress_value(data) ==
    IF data = <<>>
    THEN Err("empty")
    ELSE LET is_compressed == data[1] = 1
             actual_data == Tail(data)
         IN IF ~is_compressed
            THEN from_str(actual_data)
            ELSE LET d == ZlibDecode(actual_data)
                 IN IF d.ok THEN from_str(d.v) ELSE d


(***************************************************************************)
(* The state.                                                              *)
(***************************************************************************)
VARIABLES
    now,          \* SystemTime::now() in whole seconds since the epoch
    file,         \* the backing file: parsable or not, and the document in it
    value_cache,  \* Cache.value_cache: key -> (value, expires_at)
    file_mutex,   \* the threads holding Cache.file_mutex (0 is the cleanup thread)
    compression,  \* Cache.compression
    pc,           \* where each caller stands in its call
    call,         \* each caller's arguments, locals and result
    sweeper,      \* the cleanup thread: position, its `now`, its loaded `data`
    written,      \* history: per key, what the last set -- not followed by a
                  \* remove of the key or a clear -- asked to store
    faults,       \* the file operations that fail now: "read" (open or read
                  \* of the existing file), "write" (create or write)
    poisoned      \* the mutexes a panicking holder has poisoned

vars == <<now, file, value_cache, file_mutex, compression, pc, call, sweeper, written,
          faults, poisoned>>

U64Modulus == 2 ^ U64Bits
\* ttl + now exceeds u64 for this ttl whenever now >= 1
HugeTtl == U64Modulus - 1

\* CacheEntry and the HashMap<String, CacheEntry>
Absent == [present |-> FALSE]
CacheEntry(value, expires_at, is_compressed) ==
    [present |-> TRUE, value |-> value, expires_at |-> expires_at,
     is_compressed |-> is_compressed]
EmptyDoc == [k \in Keys |-> Absent]

\* CacheValueEntry and the CacheValueMap
HotEntry(value, expires_at) ==
    [present |-> TRUE, value |-> value, expires_at |-> expires_at]
EmptyCache == [k \in Keys |-> Absent]

\* `expires < now`, bug variant: an entry dies in the second it expires in
ExpiredInclusive(expires_at, t) == expires_at.some /\ expires_at.v <= t

\* `if let Some(expires) = expires_at { expires < now }`
Expired(expires_at, t) == expires_at.some /\ expires_at.v < t

\* no file at the cache path
NoFile == [exists |-> FALSE, valid |-> TRUE, doc |-> EmptyDoc]

\* a file whose contents are empty, cut short or otherwise unparsable
BadFile == [exists |-> TRUE, valid |-> FALSE, doc |-> EmptyDoc]

\* Cache::read_from_file, bug variant: a parse failure is returned as an error
read_from_file_strict(f) ==
    IF ~f.exists THEN Ok(EmptyDoc)
    ELSE IF "read" \in faults THEN Err("io")
    ELSE IF f.valid THEN Ok(f.doc)
    ELSE Err("parse")

\* Cache::read_from_file: a missing file is an empty map, a failing open or
\* read is an error, an empty or unparsable file is an empty map
read_from_file(f) ==
    IF ~f.exists THEN Ok(EmptyDoc)
    ELSE IF "read" \in faults THEN Err("io")
    ELSE IF f.valid THEN Ok(f.doc)
    ELSE Ok(EmptyDoc)

\* Cache::write_to_file when create and write succeed: the file it leaves
write_to_file(data) == [exists |-> TRUE, valid |-> TRUE, doc |-> data]

\* Cache::write_to_file when it fails: File::create failed and the file is
\* as it was, or the file was truncated and the write did not complete
FailedWrite(f) == {f, BadFile}

\* `write_to_file(..).map_err(..)?`, bug variant: the failure is dropped
StoreResultSwallowed(wrote) == Ok(EmptyResponse)

\* `write_to_file(..).map_err(..)?; Ok(EmptyResponse)`: what the call returns
StoreResult(wrote) == IF wrote THEN Ok(EmptyResponse) ELSE Err("write")

\* file_mutex.lock(), bug variant: the lock is granted while another holds it
MutexNeverBlocks(m) == TRUE

\* file_mutex.lock() returns once no other thread holds the mutex
MutexFree(m) == m = {}

\* the expires_at of set, as a release build computes it (u64 `+` wraps)
ExpiresAt(ttl, t) ==
    IF ttl.some THEN Some((t + ttl.v) % U64Modulus) ELSE NoneOpt

\* u64 `+` in a build with overflow checks panics here
AddOverflows(ttl, t) == ttl.some /\ t + ttl.v >= U64Modulus

\* options.compress else self.compression.enabled
should_compress(compress, cfg) == IF compress.some THEN compress.v ELSE cfg.enabled

\* the CacheEntry set stores, bug variant: the payload is not base64-framed
SetEntryUnframed(cfg, value, expires_at, compress) ==
    IF should_compress(compress, cfg)
    THEN CacheEntry(value, expires_at, Some(TRUE))
    ELSE CacheEntry(value, expires_at, Some(FALSE))

\* the CacheEntry set stores
SetEntry(cfg, value, expires_at, compress) ==
    IF should_compress(compress, cfg)
    THEN CacheEntry(JsonStr(Base64Encode(compress_value(cfg, value))),
                    expires_at, Some(TRUE))
    ELSE CacheEntry(value, expires_at, Some(FALSE))

\* is_compressed.unwrap_or(false)
IsCompressed(entry) == entry.is_compressed.some /\ entry.is_compressed.v

\* the first byte of the payload a framed entry carries: result.push(0) or
\* result.push(1) of compress_value, as decompress_value reads it (data[0])
Marker(entry) == Base64Decode(entry.value.s).v[1]

\* get, from the loaded document on, bug variant: the payload is decoded
\* before the expiry is looked at
GetFromDataDecodesFirst(loaded, key, t) ==
    LET entry == loaded.v[key] IN
    IF ~loaded.ok
    THEN [result |-> Err("read"), fill |-> NoneOpt]
    ELSE IF ~entry.present
    THEN [result |-> Ok(NoneOpt), fill |-> NoneOpt]
    ELSE IF IsCompressed(entry)
    THEN IF entry.value.kind = "str"
         THEN LET compressed_data == Base64Decode(entry.value.s) IN
              IF ~compressed_data.ok
              THEN [result |-> compressed_data, fill |-> NoneOpt]
              ELSE LET value == decompress_value(compressed_data.v) IN
                   IF ~value.ok
                   THEN [result |-> value, fill |-> NoneOpt]
                   ELSE IF Expired(entry.expires_at, t)
                   THEN [result |-> Ok(NoneOpt), fill |-> NoneOpt]
                   ELSE [result |-> Ok(Some(value.v)),
                         fill |-> Some(HotEntry(value.v, entry.expires_at))]
         ELSE [result |-> Err("format"), fill |-> NoneOpt]
    ELSE IF Expired(entry.expires_at, t)
    THEN [result |-> Ok(NoneOpt), fill |-> NoneOpt]
    ELSE [result |-> Ok(Some(entry.value)),
          fill |-> Some(HotEntry(entry.value, entry.expires_at))]

\* get, from the loaded document on: the result, and what goes into
\* value_cache (desktop.rs 371-424)
GetFromData(loaded, key, t) ==
    LET entry == loaded.v[key] IN
    IF ~loaded.ok
    THEN [result |-> Err("read"), fill |-> NoneOpt]
    ELSE IF ~entry.present
    THEN [result |-> Ok(NoneOpt), fill |-> NoneOpt]
    ELSE IF Expired(entry.expires_at, t)
    THEN [result |-> Ok(NoneOpt), fill |-> NoneOpt]
    ELSE IF IsCompressed(entry)
    THEN IF entry.value.kind = "str"
         THEN LET compressed_data == Base64Decode(entry.value.s) IN
              IF ~compressed_data.ok
              THEN [result |-> compressed_data, fill |-> NoneOpt]
              ELSE LET value == decompress_value(compressed_data.v) IN
                   IF ~value.ok
                   THEN [result |-> value, fill |-> NoneOpt]
                   ELSE [result |-> Ok(Some(value.v)),
                         fill |-> Some(HotEntry(value.v, entry.expires_at))]
         ELSE [result |-> Err("format"), fill |-> NoneOpt]
    ELSE [result |-> Ok(Some(entry.value)),
          fill |-> Some(HotEntry(entry.value, entry.expires_at))]

\* has, from the loaded document on: the result, and what goes into
\* value_cache (desktop.rs 466-486)
HasFromData(loaded, key, t) ==
    LET entry == loaded.v[key] IN
    IF ~loaded.ok
    THEN [result |-> Err("read"), fill |-> NoneOpt]
    ELSE IF ~entry.present
    THEN [result |-> Ok(BooleanResponse(FALSE)), fill |-> NoneOpt]
    ELSE IF Expired(entry.expires_at, t)
    THEN [result |-> Ok(BooleanResponse(FALSE)), fill |-> NoneOpt]
    ELSE [result |-> Ok(BooleanResponse(TRUE)),
          fill |-> Some(HotEntry(entry.value, entry.expires_at))]

\* the first block of get and has, bug variant: the value_cache is not used
HotLookupAlwaysMiss(cache, key, t) == "miss"

\* the first block of get and has: "miss", "expired" or "live"
HotLookup(cache, key, t) ==
    IF ~cache[key].present THEN "miss"
    ELSE IF Expired(cache[key].expires_at, t) THEN "expired"
    ELSE "live"

\* Cache::size, from the loaded document on
SizeOf(loaded) ==
    IF ~loaded.ok THEN Err("read")
    ELSE Ok(Cardinality({k \in Keys : loaded.v[k].present}))

\* Cache::active_size, from the loaded document on
ActiveSizeOf(loaded, t) ==
    IF ~loaded.ok THEN Err("read")
    ELSE Ok(Cardinality({k \in Keys :
                /\ loaded.v[k].present
                /\ (loaded.v[k].expires_at.some => loaded.v[k].expires_at.v > t)}))

\* the cleanup thread's filter, bug variant: the comparison is turned round
ExpiredKeysInverted(entries, t) ==
    {k \in Keys : /\ entries[k].present
                  /\ entries[k].expires_at.some
                  /\ entries[k].expires_at.v > t}

\* the keys the cleanup thread drops from a map of entries
ExpiredKeys(entries, t) ==
    {k \in Keys : entries[k].present /\ Expired(entries[k].expires_at, t)}

Without(entries, keys) == [k \in Keys |-> IF k \in keys THEN Absent ELSE entries[k]]

(***************************************************************************)
(* What one uninterrupted call would return in the current state.          *)
(***************************************************************************)
\* Cache::get run to completion
GetResult(k) ==
    IF HotLookup(value_cache, k, now) = "live"
    THEN Ok(Some(value_cache[k].value))
    ELSE GetFromData(read_from_file(file), k, now).result

\* Cache::get by an engine whose value_cache is empty
FreshGetResult(k) == GetFromData(read_from_file(file), k, now).result

\* Cache::has run to completion
HasResult(k) ==
    IF HotLookup(value_cache, k, now) = "live"
    THEN Ok(BooleanResponse(TRUE))
    ELSE HasFromData(read_from_file(file), k, now).result

\* Cache::remove run to completion on the file f and the value_cache cache
RemoveEffect(f, cache, k) ==
    LET loaded == read_from_file(f) IN
    [value_cache |-> [cache EXCEPT ![k] = Absent],
     file |-> IF loaded.ok /\ loaded.v[k].present /\ "write" \notin faults
              THEN write_to_file([loaded.v EXCEPT ![k] = Absent])
              ELSE f,
     result |-> IF ~loaded.ok THEN Err("read")
                ELSE IF loaded.v[k].present THEN StoreResult("write" \notin faults)
                ELSE Ok(EmptyResponse)]

\* Cache::clear run to completion
ClearEffect(f, cache) ==
    [value_cache |-> EmptyCache,
     file |-> IF "write" \notin faults THEN write_to_file(EmptyDoc) ELSE f,
     result |-> StoreResult("write" \notin faults)]

\* the stats command run to completion
StatsResult ==
    LET size == SizeOf(read_from_file(file))
        active == ActiveSizeOf(read_from_file(file), now)
    IN IF ~size.ok THEN size
       ELSE IF ~active.ok THEN active
       ELSE Ok([total_size |-> size.v, active_size |-> active.v])

(***************************************************************************)
(* Construction.                                                           *)
(***************************************************************************)
\* a caller's record: the arguments of its call, `at` (the clock set read),
\* its locals, its result, and whether another caller's call overlapped it
IdleCall ==
    [op |-> "none", key |-> 1, value |-> JsonNum(7), ttl |-> NoneOpt,
     compress |-> NoneOpt, at |-> 0, expires_at |-> NoneOpt, data |-> EmptyDoc,
     total |-> 0, fill |-> NoneOpt, result |-> Ok(EmptyResponse), overlapped |-> FALSE]

SweeperAsleep == [pc |-> "sleeping", now |-> 0, data |-> EmptyDoc]

CompressionConfigs == {[enabled |-> e, threshold |-> Threshold] : e \in BOOLEAN}

\* init_with_config (both of them): whatever file there is is left alone (at
\* first there is none), an empty value_cache, a free mutex, the cleanup
\* thread started
Init ==
    /\ now = 0
    /\ file = NoFile
    /\ value_cache = EmptyCache
    /\ file_mutex = {}
    /\ compression \in CompressionConfigs
    /\ pc = [t \in Callers |-> "idle"]
    /\ call = [t \in Callers |-> IdleCall]
    /\ sweeper = SweeperAsleep
    /\ written = [k \in Keys |-> NoneOpt]
    /\ faults = {}
    /\ poisoned = {}


(***************************************************************************)
(* The callers' operations.  T says which callers start calls and from      *)
(* where: after any call (from "idle" and "done") or once per run of the   *)
(* process (from "idle").  Every step runs from one lock acquisition to    *)
(* the next.                                                               *)
(***************************************************************************)
CanBegin(t, T) == t \in T.callers /\ pc[t] \in T.from

\* the call returns: its locals are dropped, its arguments and result stay
Finish(t, c) ==
    /\ pc' = [pc EXCEPT ![t] = "done"]
    /\ call' = [call EXCEPT ![t] = [c EXCEPT !.data = EmptyDoc, !.fill = NoneOpt,
                                             !.total = 0]]

Goto(t, label, c) ==
    /\ pc' = [pc EXCEPT ![t] = label]
    /\ call' = [call EXCEPT ![t] = c]

InFlight(t) == pc[t] \notin {"idle", "done"}

\* the call records once caller t has started the call c
Started(t, c) ==
    [u \in Callers |->
        IF u = t
        THEN [c EXCEPT !.overlapped = \E o \in Callers \ {t} : InFlight(o)]
        ELSE IF InFlight(u) THEN [call[u] EXCEPT !.overlapped = TRUE] ELSE call[u]]

\* caller t starts the call c and stands at label
Start(t, label, c) ==
    /\ pc' = [pc EXCEPT ![t] = label]
    /\ call' = Started(t, c)

\* set: the value is serialized and expires_at computed (desktop.rs 275-288)
SetBegin(t, T, keys, values, ttls, compresses) ==
    /\ CanBegin(t, T)
    /\ \E key \in keys, value \in values, ttl \in ttls, compress \in compresses :
         Start(t, "set_hot",
               [IdleCall EXCEPT !.op = "set", !.key = key, !.value = value,
                                !.ttl = ttl, !.compress = compress, !.at = now,
                                !.expires_at = ExpiresAt(ttl, now)])
    /\ UNCHANGED <<now, file, value_cache, file_mutex, compression, sweeper, written,
                   faults, poisoned>>

\* set in a build with overflow checks: `now + ttl` panics and the call ends
SetPanics(t, T, keys, values, ttls) ==
    /\ CanBegin(t, T)
    /\ \E key \in keys, value \in values, ttl \in ttls :
         /\ AddOverflows(ttl, now)
         /\ Start(t, "done",
                  [IdleCall EXCEPT !.op = "set", !.key = key, !.value = value,
                                   !.ttl = ttl, !.at = now, !.result = Err("panic")])
    /\ UNCHANGED <<now, file, value_cache, file_mutex, compression, sweeper, written,
                   faults, poisoned>>

\* set: "Update the in-memory cache first" (desktop.rs 290-294)
SetHot(t) ==
    /\ pc[t] = "set_hot"
    /\ value_cache' = [value_cache EXCEPT
                         ![call[t].key] = HotEntry(call[t].value, call[t].expires_at)]
    /\ Goto(t, "set_lock", call[t])
    /\ UNCHANGED <<now, file, file_mutex, compression, sweeper, written, faults, poisoned>>

\* set: the mutex is taken and the document loaded (desktop.rs 296-301)
SetLock(t) ==
    /\ pc[t] = "set_lock"
    /\ MutexFree(file_mutex)
    /\ LET loaded == read_from_file(file) IN
         IF loaded.ok
         THEN /\ file_mutex' = file_mutex \cup {t}
              /\ Goto(t, "set_write", [call[t] EXCEPT !.data = loaded.v])
         ELSE /\ file_mutex' = file_mutex
              /\ Finish(t, [call[t] EXCEPT !.result = Err("read")])
    /\ UNCHANGED <<now, file, value_cache, compression, sweeper, written, faults, poisoned>>

\* set, bug variant: a set without ttl keeps the expires_at of the entry it
\* replaces
SetWriteKeepsExpiry(t) ==
    /\ pc[t] = "set_write"
    /\ LET c == call[t]
           entry == SetEntry(compression, c.value, c.expires_at, c.compress)
           merged == IF c.data[c.key].present /\ ~entry.expires_at.some
                     THEN [entry EXCEPT !.expires_at = c.data[c.key].expires_at]
                     ELSE entry
           data == [c.data EXCEPT ![c.key] = merged]
       IN /\ file' = write_to_file(data)
          /\ written' = [written EXCEPT
                ![c.key] = Some([value |-> c.value, expires_at |-> c.expires_at])]
          /\ Finish(t, [c EXCEPT !.result = StoreResult(TRUE)])
    /\ file_mutex' = file_mutex \ {t}
    /\ UNCHANGED <<now, value_cache, compression, sweeper, faults, poisoned>>

\* set: the entry is built, inserted and the document written (desktop.rs 303-334)
SetWrite(t) ==
    /\ pc[t] = "set_write"
    /\ LET c == call[t]
           entry == SetEntry(compression, c.value, c.expires_at, c.compress)
           data == [c.data EXCEPT ![c.key] = entry]
       IN IF "write" \notin faults
          THEN /\ file' = write_to_file(data)
               /\ written' = [written EXCEPT
                     ![c.key] = Some([value |-> c.value, expires_at |-> c.expires_at])]
               /\ Finish(t, [c EXCEPT !.result = StoreResult(TRUE)])
          ELSE /\ file' \in FailedWrite(file)
               /\ written' = written
               /\ Finish(t, [c EXCEPT !.result = StoreResult(FALSE)])
    /\ file_mutex' = file_mutex \ {t}
    /\ UNCHANGED <<now, value_cache, compression, sweeper, faults, poisoned>>

\* get: the value_cache is consulted (desktop.rs 339-364)
GetBegin(t, T, keys) ==
    /\ CanBegin(t, T)
    /\ \E key \in keys :
         LET c == [IdleCall EXCEPT !.op = "get", !.key = key]
             found == HotLookup(value_cache, key, now)
         IN CASE found = "live" ->
                   Start(t, "done", [c EXCEPT !.result = Ok(Some(value_cache[key].value))])
              [] found = "expired" -> Start(t, "get_evict", c)
              [] OTHER -> Start(t, "get_lock", c)
    /\ UNCHANGED <<now, file, value_cache, file_mutex, compression, sweeper, written,
                   faults, poisoned>>

\* get: the expired entry is removed under a second lock (desktop.rs 352-354)
GetEvict(t) ==
    /\ pc[t] = "get_evict"
    /\ value_cache' = [value_cache EXCEPT ![call[t].key] = Absent]
    /\ Goto(t, "get_lock", call[t])
    /\ UNCHANGED <<now, file, file_mutex, compression, sweeper, written, faults, poisoned>>

\* get, bug variant: an entry found expired is deleted from the file
GetLockPrunes(t) ==
    /\ pc[t] = "get_lock"
    /\ MutexFree(file_mutex)
    /\ LET loaded == read_from_file(file)
           found == GetFromData(loaded, call[t].key, now)
           c == [call[t] EXCEPT !.result = found.result, !.fill = found.fill]
       IN /\ IF found.fill.some
             THEN /\ file_mutex' = file_mutex \cup {t}
                  /\ Goto(t, "get_fill", c)
             ELSE /\ file_mutex' = file_mutex
                  /\ Finish(t, c)
          /\ file' = IF loaded.ok /\ call[t].key \in ExpiredKeys(loaded.v, now)
                     THEN write_to_file(Without(loaded.v, {call[t].key}))
                     ELSE file
    /\ UNCHANGED <<now, value_cache, compression, sweeper, written, faults, poisoned>>

\* get: the mutex is taken, the document loaded and the entry examined
\* (desktop.rs 366-398, 407-411, 422-424)
GetLock(t) ==
    /\ pc[t] = "get_lock"
    /\ MutexFree(file_mutex)
    /\ LET found == GetFromData(read_from_file(file), call[t].key, now)
           c == [call[t] EXCEPT !.result = found.result, !.fill = found.fill]
       IN IF found.fill.some
          THEN /\ file_mutex' = file_mutex \cup {t}
               /\ Goto(t, "get_fill", c)
          ELSE /\ file_mutex' = file_mutex
               /\ Finish(t, c)
    /\ UNCHANGED <<now, file, value_cache, compression, sweeper, written, faults, poisoned>>

\* get, bug variant: the call returns without dropping the file_mutex guard
GetFillKeepsGuard(t) ==
    /\ pc[t] = "get_fill"
    /\ value_cache' = [value_cache EXCEPT ![call[t].key] = call[t].fill.v]
    /\ file_mutex' = file_mutex
    /\ Finish(t, call[t])
    /\ UNCHANGED <<now, file, compression, sweeper, written, faults, poisoned>>

\* get: the value goes into the value_cache and the call returns, releasing
\* the mutex (desktop.rs 400-406, 414-421)
GetFill(t) ==
    /\ pc[t] = "get_fill"
    /\ value_cache' = [value_cache EXCEPT ![call[t].key] = call[t].fill.v]
    /\ file_mutex' = file_mutex \ {t}
    /\ Finish(t, call[t])
    /\ UNCHANGED <<now, file, compression, sweeper, written, faults, poisoned>>

\* has: the value_cache is consulted (desktop.rs 429-454)
HasBegin(t, T, keys) ==
    /\ CanBegin(t, T)
    /\ \E key \in keys :
         LET c == [IdleCall EXCEPT !.op = "has", !.key = key]
             found == HotLookup(value_cache, key, now)
         IN CASE found = "live" -> Start(t, "done", [c EXCEPT !.result = Ok(BooleanResponse(TRUE))])
              [] found = "expired" -> Start(t, "has_evict", c)
              [] OTHER -> Start(t, "has_lock", c)
    /\ UNCHANGED <<now, file, value_cache, file_mutex, compression, sweeper, written,
                   faults, poisoned>>

\* has: the expired entry is removed under a second lock (desktop.rs 442-444)
HasEvict(t) ==
    /\ pc[t] = "has_evict"
    /\ value_cache' = [value_cache EXCEPT ![call[t].key] = Absent]
    /\ Goto(t, "has_lock", call[t])
    /\ UNCHANGED <<now, file, file_mutex, compression, sweeper, written, faults, poisoned>>

\* has: the mutex is taken, the clock read, the document loaded and the
\* entry examined (desktop.rs 456-475, 484-486)
HasLock(t) ==
    /\ pc[t] = "has_lock"
    /\ MutexFree(file_mutex)
    /\ LET found == HasFromData(read_from_file(file), call[t].key, now)
           c == [call[t] EXCEPT !.result = found.result, !.fill = found.fill]
       IN IF found.fill.some
          THEN /\ file_mutex' = file_mutex \cup {t}
               /\ Goto(t, "has_fill", c)
          ELSE /\ file_mutex' = file_mutex
               /\ Finish(t, c)
    /\ UNCHANGED <<now, file, value_cache, compression, sweeper, written, faults, poisoned>>

\* has: "Add to memory cache", and the call returns (desktop.rs 477-483)
HasFill(t) ==
    /\ pc[t] = "has_fill"
    /\ value_cache' = [value_cache EXCEPT ![call[t].key] = call[t].fill.v]
    /\ file_mutex' = file_mutex \ {t}
    /\ Finish(t, call[t])
    /\ UNCHANGED <<now, file, compression, sweeper, written, faults, poisoned>>

\* remove: "Remove from in-memory cache first" (desktop.rs 490-495)
RemoveBegin(t, T, keys) ==
    /\ CanBegin(t, T)
    /\ \E key \in keys :
         /\ value_cache' = [value_cache EXCEPT ![key] = Absent]
         /\ Start(t, "remove_lock", [IdleCall EXCEPT !.op = "remove", !.key = key])
    /\ UNCHANGED <<now, file, file_mutex, compression, sweeper, written, faults, poisoned>>

\* remove: the mutex is taken and the document loaded (desktop.rs 497-502)
RemoveLock(t) ==
    /\ pc[t] = "remove_lock"
    /\ MutexFree(file_mutex)
    /\ LET loaded == read_from_file(file) IN
         IF loaded.ok
         THEN /\ file_mutex' = file_mutex \cup {t}
              /\ Goto(t, "remove_write", [call[t] EXCEPT !.data = loaded.v])
         ELSE /\ file_mutex' = file_mutex
              /\ Finish(t, [call[t] EXCEPT !.result = Err("read")])
    /\ UNCHANGED <<now, file, value_cache, compression, sweeper, written, faults, poisoned>>

\* remove, bug variant: the key is dropped from the map in memory, the
\* document is never written
RemoveWriteSkipsStore(t) ==
    /\ pc[t] = "remove_write"
    /\ Finish(t, [call[t] EXCEPT !.result = Ok(EmptyResponse)])
    /\ file_mutex' = file_mutex \ {t}
    /\ UNCHANGED <<now, file, value_cache, compression, sweeper, written, faults, poisoned>>

\* remove: the key is dropped and, if it was there, the document written
\* (desktop.rs 504-512)
RemoveWrite(t) ==
    /\ pc[t] = "remove_write"
    /\ LET c == call[t] IN
         IF ~c.data[c.key].present
         THEN /\ file' = file
              /\ written' = [written EXCEPT ![c.key] = NoneOpt]
              /\ Finish(t, [c EXCEPT !.result = Ok(EmptyResponse)])
         ELSE IF "write" \notin faults
         THEN /\ file' = write_to_file([c.data EXCEPT ![c.key] = Absent])
              /\ written' = [written EXCEPT ![c.key] = NoneOpt]
              /\ Finish(t, [c EXCEPT !.result = StoreResult(TRUE)])
         ELSE /\ file' \in FailedWrite(file)
              /\ written' = written
              /\ Finish(t, [c EXCEPT !.result = StoreResult(FALSE)])
    /\ file_mutex' = file_mutex \ {t}
    /\ UNCHANGED <<now, value_cache, compression, sweeper, faults, poisoned>>

\* clear, bug variant: the in-memory cache is left as it is
ClearBeginKeepsHot(t, T) ==
    /\ CanBegin(t, T)
    /\ Start(t, "clear_lock", [IdleCall EXCEPT !.op = "clear"])
    /\ UNCHANGED <<now, file, value_cache, file_mutex, compression, sweeper, written,
                   faults, poisoned>>

\* clear: "Clear the in-memory cache" (desktop.rs 515-520)
ClearBegin(t, T) ==
    /\ CanBegin(t, T)
    /\ value_cache' = EmptyCache
    /\ Start(t, "clear_lock", [IdleCall EXCEPT !.op = "clear"])
    /\ UNCHANGED <<now, file, file_mutex, compression, sweeper, written, faults, poisoned>>

\* clear: the mutex is taken (desktop.rs 522-523)
ClearLock(t) ==
    /\ pc[t] = "clear_lock"
    /\ MutexFree(file_mutex)
    /\ file_mutex' = file_mutex \cup {t}
    /\ Goto(t, "clear_write", call[t])
    /\ UNCHANGED <<now, file, value_cache, compression, sweeper, written, faults, poisoned>>

\* clear: "Just write an empty cache" (desktop.rs 525-529)
ClearWrite(t) ==
    /\ pc[t] = "clear_write"
    /\ IF "write" \notin faults
       THEN /\ file' = write_to_file(EmptyDoc)
            /\ written' = [k \in Keys |-> NoneOpt]
            /\ Finish(t, [call[t] EXCEPT !.result = StoreResult(TRUE)])
       ELSE /\ file' \in FailedWrite(file)
            /\ written' = written
            /\ Finish(t, [call[t] EXCEPT !.result = StoreResult(FALSE)])
    /\ file_mutex' = file_mutex \ {t}
    /\ UNCHANGED <<now, value_cache, compression, sweeper, faults, poisoned>>

\* stats: app.cache().size() -- lock, load, count, unlock
\* (commands.rs 61, desktop.rs 533-542)
StatsSize(t, T) ==
    /\ CanBegin(t, T)
    /\ MutexFree(file_mutex)
    /\ LET size == SizeOf(read_from_file(file))
           c == [IdleCall EXCEPT !.op = "stats"]
       IN IF size.ok
          THEN Start(t, "stats_active", [c EXCEPT !.total = size.v])
          ELSE Start(t, "done", [c EXCEPT !.result = size])
    /\ UNCHANGED <<now, file, value_cache, file_mutex, compression, sweeper, written,
                   faults, poisoned>>

\* stats: app.cache().active_size() -- lock, load, count, unlock -- and the
\* CacheStats returned (commands.rs 62-63, desktop.rs 545-572)
StatsActive(t) ==
    /\ pc[t] = "stats_active"
    /\ MutexFree(file_mutex)
    /\ LET active == ActiveSizeOf(read_from_file(file), now) IN
         Finish(t, [call[t] EXCEPT !.result =
                      IF active.ok
                      THEN Ok([total_size |-> call[t].total, active_size |-> active.v])
                      ELSE active])
    /\ UNCHANGED <<now, file, value_cache, file_mutex, compression, sweeper, written,
                   faults, poisoned>>

(***************************************************************************)
(* The cleanup thread (desktop.rs 65-143).                                 *)
(***************************************************************************)
\* the sleep ends, the clock is read and the value_cache pruned (74-103)
SweepWake ==
    /\ sweeper.pc = "sleeping"
    /\ value_cache' = Without(value_cache, ExpiredKeys(value_cache, now))
    /\ sweeper' = [sweeper EXCEPT !.pc = "locking", !.now = now]
    /\ UNCHANGED <<now, file, file_mutex, compression, pc, call, written, faults, poisoned>>

\* the mutex is taken and the document loaded (105-113)
SweepLoad ==
    /\ sweeper.pc = "locking"
    /\ MutexFree(file_mutex)
    /\ LET loaded == read_from_file(file) IN
         IF loaded.ok
         THEN /\ file_mutex' = file_mutex \cup {0}
              /\ sweeper' = [sweeper EXCEPT !.pc = "loaded", !.data = loaded.v]
         ELSE /\ file_mutex' = file_mutex
              /\ sweeper' = SweeperAsleep
    /\ UNCHANGED <<now, file, value_cache, compression, pc, call, written, faults, poisoned>>

\* the cleanup thread, bug variant: the document is written whether or not
\* a key was dropped
SweepWriteUnconditional ==
    /\ sweeper.pc = "loaded"
    /\ file' = write_to_file(Without(sweeper.data, ExpiredKeys(sweeper.data, sweeper.now)))
    /\ file_mutex' = file_mutex \ {0}
    /\ sweeper' = SweeperAsleep
    /\ UNCHANGED <<now, value_cache, compression, pc, call, written, faults, poisoned>>

\* the expired keys are dropped and, if there were any, the document is
\* written; the mutex is released and the thread sleeps again (115-141)
SweepWrite ==
    /\ sweeper.pc = "loaded"
    /\ LET expired_keys == ExpiredKeys(sweeper.data, sweeper.now) IN
         IF expired_keys = {}
         THEN file' = file
         ELSE IF "write" \notin faults
         THEN file' = write_to_file(Without(sweeper.data, expired_keys))
         ELSE file' \in FailedWrite(file)
    /\ file_mutex' = file_mutex \ {0}
    /\ sweeper' = SweeperAsleep
    /\ UNCHANGED <<now, value_cache, compression, pc, call, written, faults, poisoned>>

(***************************************************************************)
(* Panics.  Every lock in desktop.rs is taken with .lock().unwrap(): on a  *)
(* poisoned mutex lock() returns Err(PoisonError) and unwrap() panics.  A  *)
(* mutex is poisoned when a thread panics while holding its guard, which   *)
(* the code itself can do: get and has read the clock with                 *)
(* duration_since(UNIX_EPOCH).unwrap() while they hold the value_cache     *)
(* lock, and get does so again while it holds the file_mutex guard; the    *)
(* unwrap panics when the system clock stands before the epoch.            *)
(***************************************************************************)
\* what a call that panicked on a poisoned mutex ends with: no value is
\* returned, the thread unwinds
PoisonPanic == Err("panic: PoisonError")

\* the mutex a caller standing at a label locks next ("none": the step takes
\* no lock, the guard is held already)
LockAt(label) ==
    CASE label \in {"set_hot", "get_evict", "get_fill", "has_evict", "has_fill"}
           -> "value_cache"
      [] label \in {"set_lock", "get_lock", "has_lock", "remove_lock",
                    "clear_lock", "stats_active"}
           -> "file_mutex"
      [] OTHER -> "none"

\* the guards a caller standing at a label holds: the file_mutex guard lives
\* to the end of the call, every value_cache guard is dropped in the block
\* that took it (desktop.rs 291-294, 340-364, 401-404, 415-418, 430-454,
\* 478-481, 491-494, 516-519)
HeldAt(label) ==
    IF label \in {"set_write", "remove_write", "clear_write", "get_fill", "has_fill"}
    THEN {"file_mutex"}
    ELSE {}

\* the mutex the first step of an operation locks
FirstLock(op) ==
    CASE op \in {"get", "has", "remove", "clear"} -> "value_cache"
      [] op = "stats" -> "file_mutex"
      [] OTHER -> "none"

\* the mutex the cleanup thread locks next
SweeperLock ==
    CASE sweeper.pc = "sleeping" -> "value_cache"
      [] sweeper.pc = "locking" -> "file_mutex"
      [] OTHER -> "none"

\* get or has finds the key in the value_cache with an expiry and reads the
\* clock under the value_cache lock; the unwrap panics (desktop.rs 341-348,
\* 431-438)
HotClockPanics(t, T, keys) ==
    /\ CanBegin(t, T)
    /\ "value_cache" \notin poisoned
    /\ \E key \in keys, op \in {"get", "has"} :
         /\ value_cache[key].present
         /\ value_cache[key].expires_at.some
         /\ Start(t, "done", [IdleCall EXCEPT !.op = op, !.key = key,
                                              !.result = Err("panic")])
    /\ poisoned' = poisoned \cup {"value_cache"}
    /\ UNCHANGED <<now, file, value_cache, file_mutex, compression, sweeper, written,
                   faults>>

\* get finds the key in the document with an expiry and reads the clock
\* under the file_mutex guard; the unwrap panics (desktop.rs 367-380)
GuardClockPanics(t) ==
    /\ pc[t] = "get_lock"
    /\ MutexFree(file_mutex)
    /\ "file_mutex" \notin poisoned
    /\ LET loaded == read_from_file(file) IN
         /\ loaded.ok
         /\ loaded.v[call[t].key].present
         /\ loaded.v[call[t].key].expires_at.some
    /\ Finish(t, [call[t] EXCEPT !.result = Err("panic")])
    /\ poisoned' = poisoned \cup {"file_mutex"}
    /\ UNCHANGED <<now, file, value_cache, file_mutex, compression, sweeper, written,
                   faults>>

\* an operation whose first lock() finds the mutex poisoned: unwrap panics
\* (desktop.rs 341, 431, 493, 518, 535)
BeginPanics(t, T, keys) ==
    /\ CanBegin(t, T)
    /\ \E key \in keys, op \in {"get", "has", "remove", "clear", "stats"} :
         /\ FirstLock(op) \in poisoned
         /\ Start(t, "done", [IdleCall EXCEPT !.op = op, !.key = key,
                                              !.result = PoisonPanic])
    /\ UNCHANGED <<now, file, value_cache, file_mutex, compression, sweeper, written,
                   faults, poisoned>>

\* a call in flight whose next lock() finds the mutex poisoned: unwrap
\* panics; a file_mutex guard the call holds is dropped by the unwinding,
\* which poisons the file_mutex too (desktop.rs 292, 297, 353, 368, 402, 416,
\* 443, 457, 479, 499, 523, 549)
LockPanics(t) ==
    /\ InFlight(t)
    /\ LockAt(pc[t]) \in poisoned
    /\ Finish(t, [call[t] EXCEPT !.result = PoisonPanic])
    /\ file_mutex' = file_mutex \ {t}
    /\ poisoned' = IF t \in file_mutex THEN poisoned \cup {"file_mutex"} ELSE poisoned
    /\ UNCHANGED <<now, file, value_cache, compression, sweeper, written, faults>>

\* the cleanup thread's lock() finds the mutex poisoned: unwrap panics in
\* the spawned thread, which ends; nothing restarts it (desktop.rs 84, 106)
SweepPanics ==
    /\ SweeperLock \in poisoned
    /\ sweeper' = [sweeper EXCEPT !.pc = "dead"]
    /\ UNCHANGED <<now, file, value_cache, file_mutex, compression, pc, call, written,
                   faults, poisoned>>

\* the cleanup thread wakes and reads the clock with
\* duration_since(UNIX_EPOCH).unwrap(); the unwrap panics and the thread
\* ends where it stood, before any lock (desktop.rs 74-80)
SweepClockPanics ==
    /\ sweeper.pc = "sleeping"
    /\ sweeper' = [sweeper EXCEPT !.pc = "dead_at_clock"]
    /\ UNCHANGED <<now, file, value_cache, file_mutex, compression, pc, call, written,
                   faults, poisoned>>

(***************************************************************************)
(* The environment.                                                        *)
(***************************************************************************)
\* a second passes
Tick ==
    /\ now < MaxTime
    /\ now' = now + 1
    /\ UNCHANGED <<file, value_cache, file_mutex, compression, pc, call, sweeper, written,
                   faults, poisoned>>

\* the process is restarted: the engine is constructed again over the file
\* the last run left (desktop.rs 31-50, 580-591)
Restart ==
    /\ value_cache' = EmptyCache
    /\ file_mutex' = {}
    /\ compression' \in CompressionConfigs
    /\ pc' = [t \in Callers |-> "idle"]
    /\ call' = [t \in Callers |-> IdleCall]
    /\ sweeper' = SweeperAsleep
    /\ poisoned' = {}
    /\ UNCHANGED <<now, file, written, faults>>

\* the backing file's contents are replaced with invalid data
CorruptFile ==
    /\ file # BadFile
    /\ file' = BadFile
    /\ UNCHANGED <<now, value_cache, file_mutex, compression, pc, call, sweeper, written,
                   faults, poisoned>>

\* payloads no set stores: not a string, text that is not base64, no bytes
\* at all, marker 1 before bytes that are no zlib stream, marker 0 before
\* text that is no JSON
TamperedValues ==
    {JsonNum(7), JsonStr(<<1>>), JsonStr(<<>>),
     JsonStr(Base64Encode(<<1, 0>>)), JsonStr(Base64Encode(<<0, 34>>))}

\* the backing file is replaced from outside with a parsable document whose
\* entry for a key carries such a payload, flagged compressed or not, with
\* no expires_at, the earliest or the latest
TamperFile ==
    /\ \E k \in {1}, value \in TamperedValues, flag \in BOOLEAN,
          expires_at \in {NoneOpt, Some(0), Some(MaxTime)} :
         file' = write_to_file([read_from_file(file).v EXCEPT
                                  ![k] = CacheEntry(value, expires_at, Some(flag))])
    /\ UNCHANGED <<now, value_cache, file_mutex, compression, pc, call, sweeper, written,
                   faults, poisoned>>

\* the disk or the file's permissions change: reads of the existing file
\* start or stop failing, writes start or stop failing
IoFault ==
    /\ faults' \in (SUBSET {"read", "write"}) \ {faults}
    /\ UNCHANGED <<now, file, value_cache, file_mutex, compression, pc, call, sweeper,
                   written, poisoned>>

(***************************************************************************)
(* Specifications.                                                         *)
(***************************************************************************)
Ttls == {NoneOpt, Some(0), Some(1), Some(HugeTtl)}
Compresses == {NoneOpt, Some(TRUE), Some(FALSE)}

Step(t) ==
    \/ SetHot(t) \/ SetLock(t) \/ SetWrite(t)
    \/ GetEvict(t) \/ GetLock(t) \/ GetFill(t)
    \/ HasEvict(t) \/ HasLock(t) \/ HasFill(t)
    \/ RemoveLock(t) \/ RemoveWrite(t)
    \/ ClearLock(t) \/ ClearWrite(t)
    \/ StatsActive(t)

Begin(t, T, keys, values, ttls, compresses) ==
    \/ SetBegin(t, T, keys, values, ttls, compresses)
    \/ GetBegin(t, T, keys) \/ HasBegin(t, T, keys) \/ RemoveBegin(t, T, keys)
    \/ ClearBegin(t, T) \/ StatsSize(t, T)

Sweep == SweepWake \/ SweepLoad \/ SweepWrite

OneCaller == [callers |-> {1}, from |-> {"idle", "done"}]

\* one caller, its calls one after another on one key, beside the cleanup
\* thread; every ttl, value and compression choice
Next ==
    \/ \E t \in Callers :
         \/ Begin(t, OneCaller, {1}, Values, Ttls, Compresses)
         \/ SetPanics(t, OneCaller, {1}, Values, Ttls)
         \/ Step(t)
    \/ Sweep
    \/ Tick
    \/ Restart

Spec == Init /\ [][Next]_vars

\* the same with the backing file overwritten from outside
CorruptNext == Next \/ CorruptFile

CorruptSpec == Init /\ [][CorruptNext]_vars

\* one caller beside the cleanup thread, with reads and writes of the file
\* failing at times
FaultTtls == {NoneOpt, Some(1)}

FaultNext ==
    \/ \E t \in Callers :
         \/ Begin(t, OneCaller, {1}, {ValOfLen(Threshold)}, FaultTtls, {NoneOpt})
         \/ Step(t)
    \/ Sweep
    \/ Tick
    \/ Restart
    \/ IoFault

FaultSpec == Init /\ [][FaultNext]_vars

\* one caller beside the cleanup thread in one run of the process.  Every
\* thread that can take a step eventually does; a thread waiting for
\* file_mutex gets it if it is free again and again.
LiveTtls == {NoneOpt, Some(0)}

LiveNext ==
    \/ \E t \in Callers :
         \/ Begin(t, OneCaller, {1}, {ValOfLen(Threshold)}, LiveTtls, {NoneOpt})
         \/ Step(t)
    \/ Sweep
    \/ Tick

\* the process starts beside the file an earlier run may have left:
\* init_with_config does not touch it (desktop.rs 31-50)
EarlierRunEntry == SetEntry(compression, ValOfLen(Threshold), NoneOpt, NoneOpt)
LiveInit ==
    /\ now = 0
    /\ value_cache = EmptyCache
    /\ file_mutex = {}
    /\ compression \in CompressionConfigs
    /\ pc = [t \in Callers |-> "idle"]
    /\ call = [t \in Callers |-> IdleCall]
    /\ sweeper = SweeperAsleep
    /\ faults = {}
    /\ poisoned = {}
    /\ \/ file = NoFile /\ written = [k \in Keys |-> NoneOpt]
       \/ /\ file = write_to_file([EmptyDoc EXCEPT ![1] = EarlierRunEntry])
          /\ written = [[k \in Keys |-> NoneOpt] EXCEPT
                ![1] = Some([value |-> ValOfLen(Threshold), expires_at |-> NoneOpt])]

LiveSpec ==
    /\ LiveInit
    /\ [][LiveNext]_vars
    /\ \A t \in Callers : WF_vars(Step(t))
    /\ WF_vars(SweepWake)
    /\ SF_vars(SweepLoad)
    /\ WF_vars(SweepWrite)

\* one caller beside the cleanup thread where the clock reads under a lock
\* may panic: a step that locks a poisoned mutex panics, every other step
\* runs as before; a restart builds new mutexes
PoisonTtls == {NoneOpt, Some(1)}
PoisonNext ==
    \/ \E t \in Callers :
         \/ SetBegin(t, OneCaller, {1}, {ValOfLen(Threshold)}, PoisonTtls, {NoneOpt})
         \/ /\ "value_cache" \notin poisoned
            /\ \/ GetBegin(t, OneCaller, {1}) \/ HasBegin(t, OneCaller, {1})
               \/ RemoveBegin(t, OneCaller, {1}) \/ ClearBegin(t, OneCaller)
         \/ ("file_mutex" \notin poisoned /\ StatsSize(t, OneCaller))
         \/ (LockAt(pc[t]) \notin poisoned /\ Step(t))
         \/ HotClockPanics(t, OneCaller, {1})
         \/ GuardClockPanics(t)
         \/ BeginPanics(t, OneCaller, {1})
         \/ LockPanics(t)
    \/ (SweeperLock \notin poisoned /\ Sweep)
    \/ SweepPanics
    \/ SweepClockPanics
    \/ Tick
    \/ Restart

PoisonSpec == Init /\ [][PoisonNext]_vars

\* a writer and a reader on one key: caller 1 stores either value,
\* uncompressed and without expiry, caller 2 reads the key with get and has
\* while it does, and the process may restart
Writer == [callers |-> {1}, from |-> {"idle", "done"}]
Reader == [callers |-> {2}, from |-> {"idle", "done"}]
RaceNext ==
    \/ \E t \in Callers :
         \/ SetBegin(t, Writer, {1}, Values, {NoneOpt}, {Some(FALSE)})
         \/ GetBegin(t, Reader, {1})
         \/ HasBegin(t, Reader, {1})
         \/ SetHot(t) \/ SetLock(t) \/ SetWrite(t)
         \/ GetLock(t) \/ GetFill(t)
         \/ HasLock(t) \/ HasFill(t)
    \/ Restart

RaceSpec == Init /\ [][RaceNext]_vars

\* two writers on one key: each caller stores either value, with or without
\* a ttl, uncompressed, while the other does
BothWrite == [callers |-> Callers, from |-> {"idle", "done"}]
WritersTtls == {NoneOpt, Some(1)}
WritersNext ==
    \E t \in Callers :
      \/ SetBegin(t, BothWrite, {1}, Values, WritersTtls, {Some(FALSE)})
      \/ SetHot(t) \/ SetLock(t) \/ SetWrite(t)

WritersSpec == Init /\ [][WritersNext]_vars

\* a remover beside a reader and writer on one key: caller 1 stores and
\* removes the key and clears the cache, caller 2 reads and stores the key
\* while it does, and the process may restart
UndoNext ==
    \/ \E t \in Callers :
         \/ SetBegin(t, BothWrite, {1}, {ValOfLen(Threshold)}, {NoneOpt}, {Some(FALSE)})
         \/ RemoveBegin(t, Writer, {1})
         \/ ClearBegin(t, Writer)
         \/ GetBegin(t, Reader, {1})
         \/ HasBegin(t, Reader, {1})
         \/ SetHot(t) \/ SetLock(t) \/ SetWrite(t)
         \/ RemoveLock(t) \/ RemoveWrite(t)
         \/ ClearLock(t) \/ ClearWrite(t)
         \/ GetLock(t) \/ GetFill(t)
         \/ HasLock(t) \/ HasFill(t)
    \/ Restart

UndoSpec == Init /\ [][UndoNext]_vars

\* two callers, one call each on one key, beside the cleanup thread that
\* cycles forever, in one run of the process, under fair scheduling: a
\* thread that can take a step again and again eventually takes it
FairCallers == [callers |-> Callers, from |-> {"idle"}]
FairNext ==
    \/ \E t \in Callers :
         \/ Begin(t, FairCallers, {1}, {ValOfLen(Threshold)}, LiveTtls, {NoneOpt})
         \/ Step(t)
    \/ Sweep
    \/ Tick

FairSpec ==
    /\ LiveInit
    /\ [][FairNext]_vars
    /\ \A t \in Callers : SF_vars(Step(t))
    /\ SF_vars(Sweep)

\* one caller storing on all keys, its sets one after another with every
\* value, with and without ttl, compressed and not, over the file an
\* earlier run left with an entry for key 1; nothing removes an entry
ReplaceInit ==
    /\ LiveInit
    /\ file.exists
ReplaceTtls == {NoneOpt, Some(1)}
ReplaceCompresses == {Some(TRUE), Some(FALSE)}
ReplaceNext ==
    \E t \in Callers :
      \/ SetBegin(t, OneCaller, Keys, Values, ReplaceTtls, ReplaceCompresses)
      \/ SetHot(t) \/ SetLock(t) \/ SetWrite(t)

ReplaceSpec == ReplaceInit /\ [][ReplaceNext]_vars

\* one caller reading and storing one key while the file is edited from
\* outside; the clock moves and the process may restart
TamperNext ==
    \/ \E t \in Callers :
         \/ SetBegin(t, OneCaller, {1}, {ValOfLen(Threshold)}, {Some(0)}, {NoneOpt})
         \/ GetBegin(t, OneCaller, {1})
         \/ HasBegin(t, OneCaller, {1})
         \/ SetHot(t) \/ SetLock(t) \/ SetWrite(t)
         \/ GetEvict(t) \/ GetLock(t) \/ GetFill(t)
         \/ HasEvict(t) \/ HasLock(t) \/ HasFill(t)
    \/ Tick
    \/ Restart
    \/ TamperFile

TamperSpec == Init /\ [][TamperNext]_vars

TwoCallers == [callers |-> Callers, from |-> {"idle"}]
ConcTtls == {Some(1)}

\* two callers whose calls overlap, one call each per run of the process, on
\* all keys, beside the cleanup thread
ConcNext ==
    \/ \E t \in Callers :
         \/ Begin(t, TwoCallers, Keys, {ValOfLen(Threshold)}, ConcTtls, {NoneOpt})
         \/ Step(t)
    \/ Sweep
    \/ Tick
    \/ Restart

ConcSpec == Init /\ [][ConcNext]_vars


(***************************************************************************)
(* The claims.                                                             *)
(***************************************************************************)
\* caller t's last call was a set that returned Ok, and no call of t's has
\* started since
DoneSet(t) == pc[t] = "done" /\ call[t].op = "set" /\ call[t].result.ok

\* no caller is inside a call
Quiescent == \A t \in Callers : ~InFlight(t)

\* the persisted document
Doc == read_from_file(file).v

\* C1 (the claim as stated): after a successful set(k, v, ttl = t) with
\* t > 0, a get(k) issued in the same second returns Some(v); and
\* once the clock is past the expires_at of the entry the last set of k
\* stored, get(k) returns None and has(k) false, whichever tier answers and
\* whatever the cleanup thread has done.
C1_TtlCorrectness ==
    /\ \A t \in Callers :
         (/\ DoneSet(t)
          /\ call[t].ttl.some
          /\ call[t].ttl.v > 0
          /\ now = call[t].at)
         => GetResult(call[t].key) = Ok(Some(call[t].value))
    /\ Quiescent =>
         \A k \in Keys :
           (/\ written[k].some
            /\ written[k].v.expires_at.some
            /\ now > written[k].v.expires_at.v)
           => GetResult(k) = Ok(NoneOpt) /\ HasResult(k) = Ok(BooleanResponse(FALSE))

\* C1 restricted to the ttls for which now + ttl fits in a u64: this holds
C1_TtlCorrectnessNoOverflow ==
    /\ \A t \in Callers :
         (/\ DoneSet(t)
          /\ call[t].ttl.some
          /\ call[t].ttl.v > 0
          /\ call[t].at + call[t].ttl.v < U64Modulus
          /\ now <= call[t].at + call[t].ttl.v)
         => GetResult(call[t].key) = Ok(Some(call[t].value))
    /\ Quiescent =>
         \A k \in Keys :
           (/\ written[k].some
            /\ written[k].v.expires_at.some
            /\ now > written[k].v.expires_at.v)
           => GetResult(k) = Ok(NoneOpt) /\ HasResult(k) = Ok(BooleanResponse(FALSE))

\* C2 (the claim as stated): after set(k, v, {ttl: 0}) the stored entry has
\* no expires_at, get(k) returns Some(v) at every later time, the cleanup
\* thread does not remove k and active_size counts it, until the next call.
C2_ZeroTtlNeverExpires ==
    \A t \in Callers :
      (DoneSet(t) /\ call[t].ttl = Some(0))
      => /\ Doc[call[t].key].present
         /\ Doc[call[t].key].expires_at = NoneOpt
         /\ GetResult(call[t].key) = Ok(Some(call[t].value))
         /\ ActiveSizeOf(read_from_file(file), now).v >= 1

\* C3 (the claim as stated): an entry set without ttl stays in the document
\* and get(k) returns Some(v), whatever calls other than set(k), remove(k)
\* and clear() were made since and however much time has passed.
C3_NoTtlPersistence ==
    Quiescent =>
      \A k \in Keys :
        (written[k].some /\ ~written[k].v.expires_at.some)
        => /\ Doc[k].present
           /\ GetResult(k) = Ok(Some(written[k].v.value))

\* C3 without the get: the entry stays in the document and an engine with
\* an empty value_cache reads v back.  This holds.
C3_NoTtlEntryStays ==
    \A k \in Keys :
      (written[k].some /\ ~written[k].v.expires_at.some)
      => /\ Doc[k].present
         /\ FreshGetResult(k) = Ok(Some(written[k].v.value))


\* C4: after a successful set(k, v, options), whatever the compression
\* choice, a get(k) on the unexpired key returns exactly v, both from the
\* value_cache the set filled and from the file through an engine whose
\* value_cache is empty; the entry the last set of k stored decodes to v
\* for as long as it is unexpired; and decompress_value(compress_value(v))
\* is v under either configuration.
C4_RoundTrip ==
    /\ \A t \in Callers :
         (DoneSet(t) /\ ~Expired(call[t].expires_at, now))
         => /\ GetResult(call[t].key) = Ok(Some(call[t].value))
            /\ FreshGetResult(call[t].key) = Ok(Some(call[t].value))
    /\ \A k \in Keys :
         (written[k].some /\ ~Expired(written[k].v.expires_at, now))
         => FreshGetResult(k) = Ok(Some(written[k].v.value))
    /\ \A cfg \in CompressionConfigs, v \in Values :
         decompress_value(compress_value(cfg, v)) = Ok(v)

\* C4 witness: a set has stored a zlib-compressed, base64-framed payload
\* that differs from the value, and both gets return the value
C4_Witness ==
    \E t \in Callers :
      /\ DoneSet(t)
      /\ IsCompressed(Doc[call[t].key])
      /\ Doc[call[t].key].value # call[t].value
      /\ Base64Decode(Doc[call[t].key].value.s).v[1] = 1
      /\ value_cache[call[t].key].present
      /\ GetResult(call[t].key) = Ok(Some(call[t].value))
      /\ FreshGetResult(call[t].key) = Ok(Some(call[t].value))

\* the two callers have both returned from a successful set, on different keys
BothSetsDone ==
    /\ \A t \in Callers : DoneSet(t)
    /\ call[1].key # call[2].key

\* C5: once two successful sets on different keys have both returned, in
\* whatever order their steps and the cleanup thread's interleaved, the
\* document holds an entry for each key that has not expired, with the
\* expires_at its set computed, and get returns each value.
C5_ConcurrentSetsBothPersist ==
    BothSetsDone =>
      \A t \in Callers :
        ~Expired(call[t].expires_at, now)
        => /\ Doc[call[t].key].present
           /\ Doc[call[t].key].expires_at = call[t].expires_at
           /\ GetResult(call[t].key) = Ok(Some(call[t].value))
           /\ FreshGetResult(call[t].key) = Ok(Some(call[t].value))

\* C5 witness: the two sets overlapped in time and both are in the document
C5_Witness ==
    /\ BothSetsDone
    /\ \A t \in Callers :
         /\ call[t].overlapped
         /\ Doc[call[t].key].present
         /\ FreshGetResult(call[t].key) = Ok(Some(call[t].value))

\* the threads between loading the document and writing it back (clear
\* writes without loading); 0 is the cleanup thread
Mutators ==
    {t \in Callers : pc[t] \in {"set_write", "remove_write", "clear_write"}}
      \cup (IF sweeper.pc = "loaded" THEN {0} ELSE {})

\* a step in which get, has, size or active_size loads the document
ReaderLoads ==
    \E t \in Callers :
      \/ pc[t] = "get_lock" /\ pc'[t] \in {"get_fill", "done"}
      \/ pc[t] = "has_lock" /\ pc'[t] \in {"has_fill", "done"}
      \/ pc[t] \in {"idle", "done"} /\ pc'[t] = "stats_active"
      \/ pc[t] = "stats_active" /\ pc'[t] = "done"

\* C6: at most one of set, remove, clear and the cleanup thread is between
\* its load and its write, file_mutex has at most one holder, every such
\* thread holds it, and every load by get, has, size or active_size is
\* taken while no thread is between its load and its write.
C6_GuardMutualExclusion ==
    /\ [](/\ Cardinality(Mutators) <= 1
          /\ Cardinality(file_mutex) <= 1
          /\ Mutators \subseteq file_mutex)
    /\ [][ReaderLoads => Mutators = {}]_vars

\* C6 witness: a set holds the mutex between load and write while a get and
\* the cleanup thread are waiting for it
C6_Witness ==
    /\ pc[1] = "set_write"
    /\ pc[2] = "get_lock"
    /\ sweeper.pc = "locking"
    /\ file_mutex = {1}

\* C7 (the claim as stated): every CacheStats stats returns has
\* active_size <= total_size, both counted on one document.
C7_StatsConsistency ==
    \A t \in Callers :
      (pc[t] = "done" /\ call[t].op = "stats" /\ call[t].result.ok)
      => call[t].result.v.active_size <= call[t].result.v.total_size

\* a step of has
HasStep ==
    \E t \in Callers :
      \/ /\ pc[t] \in {"idle", "done"}
         /\ pc'[t] \in {"has_evict", "has_lock", "done"}
         /\ call'[t].op = "has"
         /\ <<pc[t], call[t]>> # <<pc'[t], call'[t]>>
      \/ pc[t] = "has_evict" /\ pc'[t] = "has_lock"
      \/ pc[t] = "has_lock" /\ pc'[t] \in {"has_fill", "done"}
      \/ pc[t] = "has_fill" /\ pc'[t] = "done"

\* C8 (the claim as stated): no step of has changes the document or what a
\* get of any key would return.
C8_HasNoVisibleEffect ==
    [][HasStep => /\ file' = file
                  /\ \A k \in Keys : GetResult(k)' = GetResult(k)]_vars

\* C8, the part that holds: has leaves the document unchanged
C8_HasLeavesDocument ==
    [][HasStep => file' = file]_vars

\* C9: whenever no call is in progress and the mutex is free, has(k)
\* returns true if and only if the document has an entry for k whose
\* expires_at is absent or not below the clock.
C9_HasIffPresentUnexpired ==
    (Quiescent /\ file_mutex = {}) =>
      \A k \in Keys :
        HasResult(k) =
          Ok(BooleanResponse(
               /\ Doc[k].present
               /\ (Doc[k].expires_at.some => Doc[k].expires_at.v >= now)))

\* C9 witness: a has returned true for an entry in the last second of its
\* life, which it copied into the value_cache, and another has would too
C9_Witness ==
    /\ pc[1] = "done"
    /\ call[1].op = "has"
    /\ call[1].result = Ok(BooleanResponse(TRUE))
    /\ file_mutex = {}
    /\ Doc[call[1].key].expires_at = Some(now)
    /\ value_cache[call[1].key] =
         HotEntry(Doc[call[1].key].value, Some(now))
    /\ HasResult(call[1].key) = Ok(BooleanResponse(TRUE))

C11_LoadFailureAbsorbed ==
    /\ \A t \in Callers :
         (pc[t] = "done" /\ call[t].op \in {"get", "has", "stats"})
         => call[t].result.ok
    /\ (file.exists /\ "read" \in faults) =>
         /\ SizeOf(read_from_file(file)) = Ok(0)
         /\ ActiveSizeOf(read_from_file(file), now) = Ok(0)
         /\ \A k \in Keys :
              HotLookup(value_cache, k, now) = "miss"
              => /\ GetResult(k) = Ok(NoneOpt)
                 /\ HasResult(k) = Ok(BooleanResponse(FALSE))

\* C11, what the code does instead: while opening or reading the existing
\* file fails, every get and has that goes to the file, and size and
\* active_size, return an error
C11_LoadFailureSurfaced ==
    (file.exists /\ "read" \in faults) =>
      /\ ~SizeOf(read_from_file(file)).ok
      /\ ~ActiveSizeOf(read_from_file(file), now).ok
      /\ \A k \in Keys :
           HotLookup(value_cache, k, now) # "live"
           => ~GetResult(k).ok /\ ~HasResult(k).ok


\* the document set is about to write: the one it loaded, with its entry
SetDocument(t) ==
    [call[t].data EXCEPT ![call[t].key] =
        SetEntry(compression, call[t].value, call[t].expires_at, call[t].compress)]

\* C12: in the step in which set, remove (of a key the loaded document has)
\* or clear writes the document and returns, the call returns an error if
\* writes fail; and if it returns success the file it leaves is the written
\* document -- for set the loaded document with k mapped to the new entry,
\* for remove the loaded document without k, for clear the empty document
\* -- and the caller held file_mutex throughout.
C12_StoreFailuresSurfaced ==
    [][\A t \in Callers :
         /\ (pc[t] = "set_write" /\ pc'[t] = "done")
            => /\ "write" \in faults => ~call'[t].result.ok
               /\ call'[t].result.ok
                  => /\ file' = write_to_file(SetDocument(t))
                     /\ file'.doc[call[t].key].present
                     /\ file_mutex = {t}
         /\ (pc[t] = "remove_write" /\ pc'[t] = "done"
               /\ call[t].data[call[t].key].present)
            => /\ "write" \in faults => ~call'[t].result.ok
               /\ call'[t].result.ok
                  => /\ file' = write_to_file([call[t].data EXCEPT
                                                 ![call[t].key] = Absent])
                     /\ file_mutex = {t}
         /\ (pc[t] = "clear_write" /\ pc'[t] = "done")
            => /\ "write" \in faults => ~call'[t].result.ok
               /\ call'[t].result.ok
                  => /\ file' = write_to_file(EmptyDoc)
                     /\ file_mutex = {t}
    ]_vars

\* C12 witness: a set whose write failed has returned an error and left the
\* file cut short, after an earlier set had stored the key
C12_Witness ==
    /\ pc[1] = "done"
    /\ call[1].op = "set"
    /\ call[1].result = Err("write")
    /\ "write" \in faults
    /\ written[call[1].key].some
    /\ file = BadFile


\* a step of remove on a key that neither the document nor the value_cache
\* holds
RemoveOfAbsentStep ==
    \E t \in Callers :
      /\ \/ /\ pc[t] \in {"idle", "done"}
            /\ pc'[t] = "remove_lock"
            /\ ~Doc[call'[t].key].present
            /\ ~value_cache[call'[t].key].present
         \/ /\ pc[t] \in {"remove_lock", "remove_write"}
            /\ pc'[t] \in {"remove_write", "done"}
            /\ ~Doc[call[t].key].present
            /\ ~value_cache[call[t].key].present

\* C13: a remove that has returned returned success, the key is then in
\* neither tier, and get returns None and has false; a remove of a key in
\* neither tier changes neither the file nor the value_cache; and in any
\* state between calls a second remove(k) changes nothing the first left.
C13_IdempotentRemoval ==
    /\ [](\A t \in Callers :
            (pc[t] = "done" /\ call[t].op = "remove")
            => /\ call[t].result = Ok(EmptyResponse)
               /\ ~Doc[call[t].key].present
               /\ ~value_cache[call[t].key].present
               /\ GetResult(call[t].key) = Ok(NoneOpt)
               /\ HasResult(call[t].key) = Ok(BooleanResponse(FALSE)))
    /\ []((Quiescent /\ file_mutex = {}) =>
            \A k \in Keys :
              LET once == RemoveEffect(file, value_cache, k)
                  twice == RemoveEffect(once.file, once.value_cache, k)
              IN /\ once.result = Ok(EmptyResponse)
                 /\ twice = once
                 /\ (~Doc[k].present /\ ~value_cache[k].present)
                    => (once.file = file /\ once.value_cache = value_cache))
    /\ [][RemoveOfAbsentStep => (file' = file /\ value_cache' = value_cache)]_vars

\* C13 witness: a remove has returned success where there has never been a
\* file, and none was created
C13_Witness ==
    /\ pc[1] = "done"
    /\ call[1].op = "remove"
    /\ call[1].result = Ok(EmptyResponse)
    /\ file = NoFile
    /\ sweeper.pc = "sleeping"


\* C14: from the return of a successful clear until the next call, the file
\* holds the empty document and the value_cache is empty, stats returns
\* {total_size: 0, active_size: 0}, get returns None for every key, and a
\* second clear would leave the same file and value_cache; the step in
\* which clear returns leaves exactly that.
C14_ClearEmpties ==
    /\ [](\A t \in Callers :
            (pc[t] = "done" /\ call[t].op = "clear")
            => /\ call[t].result = Ok(EmptyResponse)
               /\ file = write_to_file(EmptyDoc)
               /\ value_cache = EmptyCache
               /\ StatsResult = Ok([total_size |-> 0, active_size |-> 0])
               /\ \A k \in Keys : GetResult(k) = Ok(NoneOpt)
               /\ ClearEffect(file, value_cache).file = file
               /\ ClearEffect(file, value_cache).value_cache = value_cache)
    /\ [][\A t \in Callers :
            (pc[t] = "clear_write" /\ pc'[t] = "done")
            => (file' = write_to_file(EmptyDoc) /\ value_cache' = EmptyCache)]_vars

\* C14 witness: a clear has returned, the cleanup thread has woken since,
\* and the file holds the empty document
C14_Witness ==
    /\ pc[1] = "done"
    /\ call[1].op = "clear"
    /\ call[1].result = Ok(EmptyResponse)
    /\ file = write_to_file(EmptyDoc)
    /\ StatsResult = Ok([total_size |-> 0, active_size |-> 0])
    /\ sweeper.pc = "locking"


\* the document holds an entry for k whose expires_at is below the clock
ExpiredInDocument(k) == Doc[k].present /\ Expired(Doc[k].expires_at, now)

\* C15: whenever the document holds an expired entry for a key, the
\* cleanup thread eventually leaves a document without it, and size no
\* longer counts it; a key that is not in the document gets back into it
\* only by a set of that key.
C15_SweeperConvergence ==
    /\ \A k \in Keys :
         ExpiredInDocument(k)
           ~> (~ExpiredInDocument(k) /\ SizeOf(read_from_file(file)).v
                 = Cardinality({j \in Keys : Doc[j].present /\ ~ExpiredInDocument(j)}))
    /\ [][\A k \in Keys :
            (~Doc[k].present /\ file'.doc[k].present)
            => \E t \in Callers : pc[t] = "set_write" /\ call[t].key = k]_vars

\* C15 witness: the entry the last set of the key stored has expired, no
\* remove or clear followed that set, and the document no longer has it
C15_Witness ==
    /\ written[1].some
    /\ Expired(written[1].v.expires_at, now)
    /\ file.exists
    /\ ~Doc[1].present
    /\ sweeper.pc = "sleeping"

\* the entry the finished set of caller t stored is still in the document
\* (the cleanup thread has not removed it)
StoredBy(t) == DoneSet(t) /\ Doc[call[t].key].present

\* C16 (the claim as stated): options.compress decides alone.  A finished
\* set with compress = true whose serialized value is at least threshold
\* bytes long has stored a framed payload with marker byte 1, whether or
\* not the configuration enables compression; a finished set with
\* compress = false has stored the value itself, unframed.
C16_PerCallCompressionOverride ==
    \A t \in Callers :
      (StoredBy(t) /\ call[t].compress.some)
      => LET entry == Doc[call[t].key] IN
         IF call[t].compress.v
         THEN Len(to_string(call[t].value)) >= compression.threshold
              => (IsCompressed(entry) /\ Marker(entry) = 1)
         ELSE ~IsCompressed(entry) /\ entry.value = call[t].value

\* what the code does for the override: compress = true always frames the
\* payload and flags it is_compressed, but the marker byte is 1 only if the
\* configuration enables compression too; compress = false stores the value
\* itself
C16_OverrideAsCoded ==
    \A t \in Callers :
      (StoredBy(t) /\ call[t].compress.some)
      => LET entry == Doc[call[t].key] IN
         IF call[t].compress.v
         THEN /\ IsCompressed(entry)
              /\ Marker(entry) = 1
                 <=> (compression.enabled
                      /\ Len(to_string(call[t].value)) >= compression.threshold)
         ELSE ~IsCompressed(entry) /\ entry.value = call[t].value

\* C17: with compression enabled, a payload of threshold - 1 bytes is
\* encoded with marker byte 0 and a payload of exactly threshold bytes with
\* marker byte 1; with compression disabled the marker is 0 for every
\* length; and the framed entry a finished set stored carries marker 1
\* exactly when compression is enabled and the payload is at least
\* threshold bytes long.
C17_ThresholdBoundary ==
    /\ \A cfg \in CompressionConfigs :
         /\ Len(to_string(ValOfLen(cfg.threshold - 1))) = cfg.threshold - 1
         /\ Len(to_string(ValOfLen(cfg.threshold))) = cfg.threshold
         /\ cfg.enabled
            => /\ compress_value(cfg, ValOfLen(cfg.threshold - 1))[1] = 0
               /\ compress_value(cfg, ValOfLen(cfg.threshold))[1] = 1
         /\ ~cfg.enabled
            => \A v \in Values : compress_value(cfg, v)[1] = 0
    /\ \A t \in Callers :
         (StoredBy(t) /\ IsCompressed(Doc[call[t].key]))
         => (Marker(Doc[call[t].key]) = 1
             <=> (compression.enabled
                  /\ Len(to_string(call[t].value)) >= compression.threshold))

\* C17 witness: with compression enabled, a finished set of a value of
\* exactly threshold bytes has stored a payload with marker byte 1, where a
\* value one byte shorter would have been encoded with marker byte 0
C17_Witness ==
    \E t \in Callers :
      /\ StoredBy(t)
      /\ compression.enabled
      /\ Len(to_string(call[t].value)) = compression.threshold
      /\ IsCompressed(Doc[call[t].key])
      /\ Marker(Doc[call[t].key]) = 1
      /\ compress_value(compression, ValOfLen(compression.threshold - 1))[1] = 0

\* C18 (the claim as stated): a call that finds the file_mutex or the
\* value_cache lock poisoned returns an error value, it does not panic, and
\* the cleanup thread keeps looping whatever lock it finds poisoned.
C18_PoisonedLockReturnsError ==
    /\ \A t \in Callers : pc[t] = "done" => call[t].result # PoisonPanic
    /\ sweeper.pc # "dead"

\* what the code does: once a mutex is poisoned, no call that reaches it
\* returns a value, and the cleanup thread, once dead, stays dead until the
\* process is started anew
C18_PoisonIsFatal ==
    /\ \A t \in Callers :
         (pc[t] = "done" /\ ~call[t].result.ok /\ poisoned # {})
         => call[t].result \in {PoisonPanic, Err("panic")}
    /\ [][sweeper.pc = "dead" => (sweeper'.pc = "dead" \/ poisoned' = {})]_vars

\* the set of caller t returned an error from loading or writing the file
FailedSet(t) ==
    /\ pc[t] = "done"
    /\ call[t].op = "set"
    /\ call[t].result \in {Err("read"), Err("write")}

\* the file holds no entry for k
NotPersisted(k) == ~(file.exists /\ file.valid /\ file.doc[k].present)

\* C19 (the claim as stated): after set(k, v) returned an error because
\* loading or writing the file failed, and with no entry for k in the file,
\* the value_cache does not hold (k, v), and a get(k) or has(k) issued now
\* does not report the value.
C19_HotCacheNeverSoleLocation ==
    \A t \in Callers :
      (FailedSet(t) /\ NotPersisted(call[t].key))
      => /\ value_cache[call[t].key] # HotEntry(call[t].value, call[t].expires_at)
         /\ GetResult(call[t].key) # Ok(Some(call[t].value))
         /\ HasResult(call[t].key) # Ok(BooleanResponse(TRUE))

\* what the code does: a failed set leaves in the value_cache the entry it
\* inserted before it touched the file, until the entry expires and is
\* evicted or the process restarts
C19_FailedSetLeavesHotEntry ==
    [][\A t \in Callers :
         (pc[t] \in {"set_lock", "set_write"} /\ pc'[t] = "done"
            /\ ~call'[t].result.ok /\ value_cache' = value_cache)
         => value_cache'[call'[t].key] \in
              {HotEntry(call'[t].value, call'[t].expires_at), Absent}]_vars

\* C20 (the claim as stated): once the writer's set(k, v) has returned
\* successfully, with no later set and no remove or clear at all, a get(k)
\* issued now returns v, whatever the reader's get and has calls that ran
\* beside the set have put into the value_cache.
C20_ReadYourWrites ==
    \A t \in Callers :
      DoneSet(t) => GetResult(call[t].key) = Ok(Some(call[t].value))

\* where the code keeps the promise: a set that no other call overlapped is
\* read back
C20_ReadYourWritesAlone ==
    \A t \in Callers :
      (DoneSet(t) /\ ~call[t].overlapped)
      => GetResult(call[t].key) = Ok(Some(call[t].value))

\* two successful sets on one key have both returned
BothSetsOfOneKeyDone ==
    /\ \A t \in Callers : DoneSet(t)
    /\ call[1].key = call[2].key

\* C21 (the claim as stated): once two overlapping successful sets on one
\* key have both returned, the document holds what the set that took
\* file_mutex last asked to store, the value_cache holds the same value and
\* expires_at, and get returns the value in the document.
C21_LastWriterWinsBothTiers ==
    (BothSetsOfOneKeyDone /\ call[1].overlapped /\ call[2].overlapped)
    => LET k == call[1].key IN
       /\ written[k].some
       /\ Doc[k].present
       /\ Doc[k].value = written[k].v.value
       /\ Doc[k].expires_at = written[k].v.expires_at
       /\ value_cache[k] = HotEntry(written[k].v.value, written[k].v.expires_at)
       /\ GetResult(k) = FreshGetResult(k)

\* what the code keeps of it: the document holds what the set that took
\* file_mutex last asked to store, and the value_cache holds what one of
\* the two sets asked to store
C21_LastWriterWinsDocument ==
    BothSetsOfOneKeyDone
    => LET k == call[1].key IN
       /\ Doc[k].present
       /\ Doc[k].value = written[k].v.value
       /\ Doc[k].expires_at = written[k].v.expires_at
       /\ \E t \in Callers :
            value_cache[k] = HotEntry(call[t].value, call[t].expires_at)

\* the last call of caller t, a remove of k or a clear, has returned
\* successfully, every other caller's call has returned, and no set has
\* written k since
RemovedAndSettled(t, k) ==
    /\ pc[t] = "done"
    /\ call[t].result.ok
    /\ \/ call[t].op = "remove" /\ call[t].key = k
       \/ call[t].op = "clear"
    /\ Quiescent
    /\ ~written[k].some

\* C22 (the claim as stated): after remove(k) or clear() has returned and
\* every call that overlapped it has returned too, with no set of k taking
\* file_mutex after it, the value_cache holds no entry for k, get(k)
\* returns None and has(k) false.
C22_RemovalNotUndone ==
    \A t \in Callers, k \in Keys :
      RemovedAndSettled(t, k)
      => /\ ~value_cache[k].present
         /\ GetResult(k) = Ok(NoneOpt)
         /\ HasResult(k) = Ok(BooleanResponse(FALSE))

\* what the code keeps of it: the document holds no entry for k, and a
\* remove or clear that no call overlapped leaves the value_cache without k
C22_RemovalInDocument ==
    \A t \in Callers, k \in Keys :
      RemovedAndSettled(t, k)
      => /\ ~Doc[k].present
         /\ FreshGetResult(k) = Ok(NoneOpt)
         /\ ~call[t].overlapped => ~value_cache[k].present

\* caller t stands before file_mutex.lock() and another thread holds it
WaitsForGuard(t) == LockAt(pc[t]) = "file_mutex" /\ ~MutexFree(file_mutex)

C24_SweeperNeverTerminates ==
    /\ [](sweeper.pc \in {"sleeping", "locking", "loaded"})
    /\ [](sweeper.pc = "sleeping" => ENABLED SweepWake)
    /\ [][(sweeper.pc \in {"locking", "loaded"} /\ sweeper'.pc # sweeper.pc)
           => \/ sweeper.pc = "locking" /\ sweeper'.pc = "loaded"
                 /\ read_from_file(file).ok
              \/ sweeper' = SweeperAsleep /\ 0 \notin file_mutex']_vars

\* a step that ends a cycle of the cleanup thread (and is not a restart of
\* the process, which leaves the file, empties the value_cache and ends
\* every call)
SweepEnds ==
    /\ sweeper.pc = "loaded"
    /\ sweeper'.pc = "sleeping"
    /\ ~(/\ file' = file
         /\ value_cache' = EmptyCache
         /\ \A t \in Callers : pc'[t] = "idle")

C26_HotCacheNeverFilledExpired ==
    [][\A k \in Keys :
         (value_cache'[k].present /\ value_cache'[k] # value_cache[k])
         => ~Expired(value_cache'[k].expires_at, now)]_vars

\* what the code keeps of it: the entry get and has put into the
\* value_cache was not expired at the clock they read under file_mutex, and
\* the entry set puts there carries the expires_at set computed from the
\* clock it read
C26_FilledAsChecked ==
    [][\A t \in Callers :
         /\ (pc[t] \in {"get_lock", "has_lock"} /\ pc'[t] \in {"get_fill", "has_fill"})
            => ~Expired(call'[t].fill.v.expires_at, now)
         /\ (pc[t] = "set_hot" /\ pc'[t] = "set_lock")
            => value_cache'[call[t].key].expires_at = ExpiresAt(call[t].ttl, call[t].at)]_vars

\* caller t starts a get or a has in this step
ReadBegins(t) ==
    /\ pc[t] \in {"idle", "done"}
    /\ call'[t].op \in {"get", "has"}
    /\ pc'[t] \in {"get_evict", "get_lock", "has_evict", "has_lock", "done"}
    /\ <<pc[t], call[t]>> # <<pc'[t], call'[t]>>

\* C27: a get or has that finds the key in the value_cache with no
\* expires_at or with expires_at not before the clock returns in that very
\* step, the cached value or true, whoever holds file_mutex, and leaves
\* file_mutex, the file and the value_cache as they were; one that finds
\* an expired entry goes on to remove it from the value_cache, then takes
\* file_mutex and answers from the document it loads.
C27_HotCacheReadPolicy ==
    /\ [][\A t \in Callers :
            ReadBegins(t) =>
              LET k == call'[t].key
                  hit == value_cache[k]
              IN IF hit.present /\ ~Expired(hit.expires_at, now)
                 THEN /\ pc'[t] = "done"
                      /\ call'[t].result =
                           IF call'[t].op = "get" THEN Ok(Some(hit.value))
                           ELSE Ok(BooleanResponse(TRUE))
                      /\ file_mutex' = file_mutex
                      /\ file' = file
                      /\ value_cache' = value_cache
                 ELSE IF hit.present
                 THEN pc'[t] \in {"get_evict", "has_evict"}
                 ELSE pc'[t] \in {"get_lock", "has_lock"}]_vars
    /\ [][\A t \in Callers :
            /\ (pc[t] \in {"get_evict", "has_evict"} /\ pc'[t] \in {"get_lock", "has_lock"})
               => ~value_cache'[call[t].key].present
            /\ (pc[t] = "get_lock" /\ pc'[t] \in {"get_fill", "done"})
               => /\ MutexFree(file_mutex)
                  /\ call'[t].result
                       = GetFromData(read_from_file(file), call[t].key, now).result
            /\ (pc[t] = "has_lock" /\ pc'[t] \in {"has_fill", "done"})
               => /\ MutexFree(file_mutex)
                  /\ call'[t].result
                       = HasFromData(read_from_file(file), call[t].key, now).result]_vars

\* C27 witness: a get has returned the value from the value_cache while
\* the other caller holds file_mutex and the file has no entry for the key
C27_Witness ==
    /\ pc[1] = "set_write"
    /\ file_mutex = {1}
    /\ ~file.doc[call[1].key].present
    /\ pc[2] = "done"
    /\ call[2].op = "get"
    /\ call[2].key = call[1].key
    /\ call[2].result = Ok(Some(call[1].value))

\* a step of get, has, size or active_size by caller t
ReadStep(t) ==
    \/ ReadBegins(t)
    \/ pc[t] \in {"get_evict", "has_evict"} /\ pc'[t] \in {"get_lock", "has_lock"}
    \/ pc[t] \in {"get_lock", "has_lock"} /\ pc'[t] \in {"get_fill", "has_fill", "done"}
    \/ pc[t] \in {"get_fill", "has_fill"} /\ pc'[t] = "done"
    \/ pc[t] \in {"idle", "done"} /\ pc'[t] = "stats_active"
    \/ pc[t] = "stats_active" /\ pc'[t] = "done"

\* C28: no step of get, has, size or active_size changes the file; the
\* file changes only in the write step of set, remove, clear or the
\* cleanup thread; and when get or has finds an expired entry in the
\* document and returns None or false, the entry is in the file
\* afterwards and size counts it as before.
C28_ReadsLeaveStore ==
    /\ [][(\E t \in Callers : ReadStep(t)) => file' = file]_vars
    /\ [][file' # file
           => \/ \E t \in Callers : pc[t] \in {"set_write", "remove_write", "clear_write"}
              \/ sweeper.pc = "loaded"]_vars
    /\ [][\A t \in Callers :
            (/\ pc[t] \in {"get_lock", "has_lock"}
             /\ pc'[t] = "done"
             /\ file.doc[call[t].key].present
             /\ Expired(file.doc[call[t].key].expires_at, now))
            => /\ call'[t].result \in {Ok(NoneOpt), Ok(BooleanResponse(FALSE))}
               /\ file'.doc[call[t].key] = file.doc[call[t].key]
               /\ SizeOf(read_from_file(file')) = SizeOf(read_from_file(file))
               /\ SizeOf(read_from_file(file')).v >= 1]_vars

\* C28 witness: a get has returned None for an entry that stands expired
\* in the file, where size counts it
C28_Witness ==
    \E t \in Callers :
      /\ pc[t] = "done"
      /\ call[t].op = "get"
      /\ call[t].result = Ok(NoneOpt)
      /\ file.doc[call[t].key].present
      /\ Expired(file.doc[call[t].key].expires_at, now)
      /\ SizeOf(read_from_file(file)) = Ok(1)

\* C29: key 1 has an entry throughout; the write step of a successful set
\* of k puts into the document the entry built from the call's arguments
\* alone -- value, expires_at and is_compressed -- and leaves every other
\* key's entry as it was; once the set has returned, the document and the
\* value_cache hold for k the value and the expires_at of that call: none
\* if it gave no ttl, whatever the replaced entry had.
C29_WholeEntryReplacement ==
    /\ [](Doc[1].present)
    /\ [][\A t \in Callers :
            (pc[t] = "set_write" /\ pc'[t] = "done" /\ call'[t].result.ok)
            => /\ file'.doc[call[t].key]
                    = SetEntry(compression, call[t].value, call[t].expires_at,
                               call[t].compress)
               /\ \A j \in Keys \ {call[t].key} : file'.doc[j] = file.doc[j]]_vars
    /\ [](\A t \in Callers :
            DoneSet(t)
            => /\ Doc[call[t].key].expires_at = ExpiresAt(call[t].ttl, call[t].at)
               /\ Doc[call[t].key].is_compressed = Some(should_compress(call[t].compress,
                                                                       compression))
               /\ FreshGetResult(call[t].key) = Ok(Some(call[t].value))
               /\ value_cache[call[t].key] = HotEntry(call[t].value, call[t].expires_at))

\* C29 witness: over the entry of key 1 that had no expires_at, a set with
\* a ttl, uncompressed, has stored an entry that expires, and key 2 holds
\* an entry stored before it
C29_Witness ==
    \E t \in Callers :
      /\ DoneSet(t)
      /\ call[t].key = 1
      /\ call[t].ttl = Some(1)
      /\ call[t].compress = Some(FALSE)
      /\ Doc[1] = CacheEntry(call[t].value, Some(now + 1), Some(FALSE))
      /\ Doc[1] # EarlierRunEntry
      /\ Doc[2].present

\* the keys of the document for which has, answering from the file, returns
\* true
LiveForHas ==
    {k \in Keys : /\ Doc[k].present
                  /\ HasFromData(read_from_file(file), k, now).result
                       = Ok(BooleanResponse(TRUE))}

\* C30 (the claim as stated): whenever no call is in progress and the
\* mutex is free, active_size returns the number of keys of the document
\* for which has returns true, entries whose expires_at is the current
\* second included.
C30_ActiveSizeAgreesWithHas ==
    (Quiescent /\ file_mutex = {})
    => ActiveSizeOf(read_from_file(file), now) = Ok(Cardinality(LiveForHas))

\* what the code does: active_size leaves out the entries whose expires_at
\* is the current second, which has and get still report
C30_ActiveSizeStrictlyLater ==
    (Quiescent /\ file_mutex = {})
    => ActiveSizeOf(read_from_file(file), now)
         = Ok(Cardinality({k \in LiveForHas : Doc[k].expires_at # Some(now)}))

\* the errors get raises while decoding a stored payload
DecodeErrors ==
    {Err("format"), Err("base64"), Err("empty"), Err("decompress"), Err("deserialize")}

\* the stored value is not a marker-framed payload that decodes
Undecodable(value) ==
    \/ value.kind # "str"
    \/ ~Base64Decode(value.s).ok
    \/ /\ Base64Decode(value.s).ok
       /\ ~decompress_value(Base64Decode(value.s).v).ok

\* C31: a get answered from the value_cache never returns a decode error;
\* a get answered from the file returns a decode error only if the key is
\* in the document, not expired, flagged is_compressed, and its value is
\* not a string, not base64, empty, or fails to decompress or parse; and it
\* returns None for a key that is absent or expired, whatever the stored
\* payload.
C31_DecodeErrorsOnlyForLiveEntries ==
    /\ [][\A t \in Callers :
            (ReadBegins(t) /\ call'[t].op = "get" /\ pc'[t] = "done")
            => call'[t].result.ok]_vars
    /\ [][\A t \in Callers :
            (pc[t] = "get_lock" /\ pc'[t] \in {"get_fill", "done"})
            => LET entry == file.doc[call[t].key] IN
               /\ call'[t].result \in DecodeErrors
                  => /\ file.exists /\ file.valid
                     /\ entry.present
                     /\ ~Expired(entry.expires_at, now)
                     /\ entry.is_compressed = Some(TRUE)
                     /\ Undecodable(entry.value)
               /\ (~entry.present \/ Expired(entry.expires_at, now))
                  => call'[t].result = Ok(NoneOpt)
               /\ call'[t].result.ok \/ call'[t].result \in DecodeErrors]_vars

\* C31 witness: a get has returned a decode error for an entry that is in
\* the document, flagged compressed, not expired, with marker 1 before
\* bytes that do not decompress
C31_Witness ==
    \E t \in Callers :
      /\ pc[t] = "done"
      /\ call[t].op = "get"
      /\ call[t].result = Err("decompress")
      /\ file.doc[call[t].key].present
      /\ IsCompressed(file.doc[call[t].key])
      /\ file.doc[call[t].key].expires_at = Some(now)
      /\ now = MaxTime

\* caller t's set with a ttl has ended
EndedSetWithTtl(t) == pc[t] = "done" /\ call[t].op = "set" /\ call[t].ttl.some

\* C32 (the claim as stated): for every ttl, a set does not abort on the
\* addition, and the expires_at it stores is the sum of the clock it read
\* and the ttl, never below that clock.
C32_ExpiryArithmetic ==
    \A t \in Callers :
      EndedSetWithTtl(t)
      => /\ call[t].result # Err("panic")
         /\ call[t].result.ok
            => /\ call[t].expires_at = Some(call[t].at + call[t].ttl.v)
               /\ call[t].expires_at.v >= call[t].at

\* what the code does: the sum is taken in u64; where it exceeds u64 the
\* set either panics or stores the sum reduced modulo 2^64, which is below
\* the clock it read; where it does not, the set stores the sum
C32_ExpiryArithmeticInU64 ==
    \A t \in Callers :
      EndedSetWithTtl(t)
      => LET sum == call[t].at + call[t].ttl.v IN
         /\ call[t].result = Err("panic") => sum >= U64Modulus
         /\ call[t].result.ok
            => /\ call[t].expires_at = Some(sum % U64Modulus)
               /\ sum < U64Modulus => call[t].expires_at.v >= call[t].at
               /\ sum >= U64Modulus => call[t].expires_at.v < call[t].at

====
